---- MODULE Spec2Model ----
(***************************************************************************)
(* A model of the OFX importer of davidciani_beancount_addons              *)
(* (src/src/davidciani_beancount_addons/importers/ofx.py): the statement   *)
(* locator find_statement_transactions (a lazy generator), the transaction *)
(* builder build_transaction, the navigator find_child and the             *)
(* orchestrator extract.                                                   *)
(*                                                                         *)
(* Text is a sequence of tokens (one-character strings, or an XML entity). *)
(* Python's None is the empty tuple <<>> and a present value v is <<v>>.   *)
(* A call either returns a value or raises: [exc |-> "", val |-> v] or     *)
(* [exc |-> "IndexError", val |-> <<>>].                                   *)
(***************************************************************************)
EXTENDS Integers, Sequences, FiniteSets, TLC

\* ------------------------------------------------------------------ bounds
\* stmtrs nodes in a document
MaxSections == 2
\* curdef, transaction-list and stmttrn nodes in a document, taken together
MaxNodes == 5
\* the days 202401dd a document may mention, dd in 1..MaxDate
MaxDate == 2

\* ------------------------------------------------------------ Python values
None == <<>>
Some(v) == <<v>>
Ok(v) == [exc |-> "", val |-> v]
Raise(e) == [exc |-> e, val |-> None]

\* str.strip(): whitespace removed at both ends
Whitespace == {" ", "\n"}
RECURSIVE LStrip(_)
LStrip(s) == IF s # <<>> /\ Head(s) \in Whitespace THEN LStrip(Tail(s)) ELSE s
RECURSIVE RStrip(_)
RStrip(s) ==
    IF s # <<>> /\ s[Len(s)] \in Whitespace THEN RStrip(SubSeq(s, 1, Len(s) - 1)) ELSE s
Strip(s) == RStrip(LStrip(s))

\* ------------------------------------------------------ the markup tree
\* What node.find(name) gives for one child tag: no such tag ("absent"), a
\* tag with no contents ("empty"), a tag whose first content is a nested tag
\* ("tag"), or a tag whose first content is a string ("text").
Absent == [kind |-> "absent", text |-> <<>>]
Empty == [kind |-> "empty", text |-> <<>>]
TagFirst == [kind |-> "tag", text |-> <<>>]
Text(t) == [kind |-> "text", text |-> t]

\* ------------------------------------------------------------ conversions
Digits == <<"0", "1", "2", "3", "4", "5", "6", "7", "8", "9">>
DigitSet == {Digits[i] : i \in 1..10}
DigitVal(c) == (CHOOSE i \in 1..10 : Digits[i] = c) - 1
RECURSIVE ToNat(_)
ToNat(s) == IF s = <<>> THEN 0 ELSE 10 * ToNat(SubSeq(s, 1, Len(s) - 1)) + DigitVal(s[Len(s)])
AllDigits(s) == \A i \in 1..Len(s) : s[i] \in DigitSet
Prefix(s, n) == SubSeq(s, 1, IF Len(s) < n THEN Len(s) ELSE n)

\* datetime.datetime.strptime(s, "%Y%m%d") and (s, "%Y%m%d%H%M%S"): a date is
\* the number YYYYMMDD, which orders dates as the calendar does.
StrpDate(s) ==
    IF Len(s) = 8 /\ AllDigits(s)
    THEN Ok(Some([date |-> ToNat(s), time |-> 0]))
    ELSE Raise("ValueError")
StrpDateTime(s) ==
    IF Len(s) = 14 /\ AllDigits(s)
    THEN Ok(Some([date |-> ToNat(SubSeq(s, 1, 8)), time |-> ToNat(SubSeq(s, 9, 14))]))
    ELSE Raise("ValueError")

\* parse_ofx_time(date_str); date_str is None or Some(text)
ParseOfxTime(date_str) ==
    IF date_str = None THEN Ok(None)
    ELSE IF Len(date_str[1]) < 14 THEN StrpDate(Prefix(date_str[1], 8))
    ELSE StrpDateTime(Prefix(date_str[1], 14))

\* beancount.core.number.D: None and "" give Decimal(), commas and blanks are
\* dropped; a Decimal is kept as its digits.
CleanNumber(s) == SelectSeq(s, LAMBDA c : c \notin {",", " "})
D(v) ==
    IF v = None \/ v = Some(<<>>) THEN Ok(Some(<<"0">>))
    ELSE Ok(Some(CleanNumber(v[1])))

\* xml.sax.saxutils.unescape: data.replace on None raises AttributeError
UnescapeToken(c) ==
    CASE c = "&lt;" -> "<"
      [] c = "&gt;" -> ">"
      [] c = "&amp;" -> "&"
      [] OTHER -> c
Unescape(v) ==
    IF v = None THEN Raise("AttributeError")
    ELSE Ok(Some([i \in 1..Len(v[1]) |-> UnescapeToken(v[1][i])]))

\* The conversion argument of find_child: None, parse_ofx_time, D or
\* saxutils.unescape
Convert(conversion, v) ==
    CASE conversion = "parse_ofx_time" -> ParseOfxTime(v)
      [] conversion = "D" -> D(v)
      [] conversion = "unescape" -> Unescape(v)
      [] OTHER -> Ok(v)

\* ------------------------------------------------------------- find_child
\* child.contents[0] of a tag with no contents raises IndexError; a falsy
\* conversion is not applied.
FindChild(child, conversion) ==
    CASE child.kind = "absent" -> Ok(None)
      [] child.kind = "empty" -> Raise("IndexError")
      [] child.kind = "tag" -> Convert(conversion, None)
      [] OTHER -> Convert(conversion, Some(Strip(child.text)))

\* x.date() of a datetime; of None it raises AttributeError
DateOfLenient(r) ==
    IF r.exc # "" THEN r
    ELSE IF r.val = None THEN Ok(Some(0))
    ELSE Ok(Some(r.val[1].date))
DateOf(r) ==
    IF r.exc # "" THEN r
    ELSE IF r.val = None THEN Raise("AttributeError")
    ELSE Ok(Some(r.val[1].date))

\* re.match(acctid_regexp, acctid) for a pattern of literal characters: the
\* pattern must match at the start of the id, not all of it.
ReMatch(pattern, s) == Len(pattern) <= Len(s) /\ SubSeq(s, 1, Len(pattern)) = pattern

\* ----------------------------------------------------------- the documents
DayDigits(d) == <<Digits[(d \div 10) + 1], Digits[(d % 10) + 1]>>
DateText(d) == <<"2", "0", "2", "4", "0", "1">> \o DayDigits(d)
\* even days carry a time of day (14 characters), odd days do not (8)
StampText(d) == IF d % 2 = 0 THEN DateText(d) \o <<"1", "2", "0", "0", "0", "0">> ELSE DateText(d)
Day(d) == 20240100 + d
Days == 1..MaxDate

AmtText == <<"-", "4", "2">>
GoodTrn(d) ==
    [dtposted |-> Text(StampText(d)), trnamt |-> Text(AmtText), name |-> Text(<<"Shop">>),
     memo |-> Absent, trntype |-> Text(<<"DEBIT">>)]
NoDateTrn == [GoodTrn(1) EXCEPT !.dtposted = Absent]
NoAmtTrn == [GoodTrn(1) EXCEPT !.trnamt = Absent]
TrnNodes == {GoodTrn(d) : d \in Days} \cup {NoDateTrn, NoAmtTrn}

NoLedgerbal == [kind |-> "absent", dtasof |-> Absent, balamt |-> Absent]
Ledgerbal(dtasof, balamt) == [kind |-> "tag", dtasof |-> dtasof, balamt |-> balamt]
BalText == <<"1", ",", "0", "0", "0">>
LedgerbalNodes ==
    {NoLedgerbal, Ledgerbal(Absent, Text(BalText)),
     Ledgerbal(Text(DateText(1) \o <<"\n">>), Text(BalText))}

AcctidNodes == {Absent, Empty, Text(<<" ", "1", "2", "\n">>), Text(<<"2", "1">>)}
CurdefNodes == {Empty, TagFirst, Text(<<"U", "S", "D", "\n">>)}
Patterns == {<<"1">>}
BalanceTypes == {"NONE", "DECLARED", "LAST"}

RECURSIVE SumLen(_)
SumLen(ls) == IF ls = <<>> THEN 0 ELSE Len(Head(ls)) + SumLen(Tail(ls))
\* a stmtrs node as far as the call has read it: the curdef nodes, transaction
\* lists and stmttrn nodes are added as the generator and extract reach them
NoStmtrs == [acctid |-> Absent, ledgerbal |-> NoLedgerbal, tranlists |-> <<>>, curdefs |-> <<>>]

\* ---------------------------------------------------- build_transaction
\* " / ".join(filter(None, parts)): None and "" are dropped
RECURSIVE Join(_)
Join(parts) ==
    IF parts = <<>> THEN <<>>
    ELSE IF Len(parts) = 1 THEN Head(parts)
    ELSE Head(parts) \o <<" / ">> \o Join(Tail(parts))
Truthy(parts) == SelectSeq(parts, LAMBDA v : v # None /\ v # Some(<<>>))
NarrationKeepsMemo(name, memo, trntype) ==
    LET t == IF trntype \in {Some(<<"DEBIT">>), Some(<<"CREDIT">>)} THEN None ELSE trntype
        kept == Truthy(<<name, memo, t>>)
    IN  Join([i \in 1..Len(kept) |-> kept[i][1]])
Narration(name, memo, trntype) ==
    LET m == IF memo = name THEN None ELSE memo
        t == IF trntype \in {Some(<<"DEBIT">>), Some(<<"CREDIT">>)} THEN None ELSE trntype
        kept == Truthy(<<name, m, t>>)
    IN  Join([i \in 1..Len(kept) |-> kept[i][1]])

FLAG_OKAY == "*"
ImporterAccount == "Assets:Checking"
Filename == "statement.ofx"

\* build_transaction(stmttrn, flag, account, currency): the first statement
\* that raises ends the call
BuildTransaction(stmttrn, flag, account, currency) ==
    LET dtposted == FindChild(stmttrn.dtposted, "None")
        date == IF dtposted.exc # "" THEN dtposted ELSE DateOf(ParseOfxTime(dtposted.val))
        name == FindChild(stmttrn.name, "unescape")
        memo == FindChild(stmttrn.memo, "unescape")
        trntype == FindChild(stmttrn.trntype, "unescape")
        number == FindChild(stmttrn.trnamt, "D")
    IN  CASE date.exc # "" -> Raise(date.exc)
          [] name.exc # "" -> Raise(name.exc)
          [] memo.exc # "" -> Raise(memo.exc)
          [] trntype.exc # "" -> Raise(trntype.exc)
          [] number.exc # "" -> Raise(number.exc)
          [] OTHER ->
               Ok([kind |-> "Transaction",
                   meta |-> [filename |-> "<build_transaction>", lineno |-> 0],
                   date |-> date.val[1], flag |-> flag, payee |-> None,
                   narration |-> Narration(name.val, memo.val, trntype.val),
                   account |-> account,
                   units |-> [number |-> number.val, currency |-> currency]])

\* ------------------------------------------------------------ data.sorted
\* beancount.core.data.sorted: sorted(entries, key=entry_sortkey), where
\* entry_sortkey(entry) is (entry.date, SORT_ORDER.get(type(entry), 0),
\* entry.meta["lineno"]) and SORT_ORDER puts a Balance (-1) before a
\* Transaction (0) of the same date.
SortOrder(entry) == IF entry.kind = "Balance" THEN -1 ELSE 0
KeyLess(a, b) ==
    \/ a.date < b.date
    \/ a.date = b.date /\ SortOrder(a) < SortOrder(b)
    \/ a.date = b.date /\ SortOrder(a) = SortOrder(b) /\ a.meta.lineno < b.meta.lineno
\* e put after the last entry whose key is not greater (a stable insertion)
RECURSIVE Insert(_, _)
Insert(e, sorted) ==
    IF sorted = <<>> THEN <<e>>
    ELSE IF KeyLess(e, Head(sorted)) THEN <<e>> \o sorted
    ELSE <<Head(sorted)>> \o Insert(e, Tail(sorted))
RECURSIVE InsertAll(_, _)
InsertAll(entries, sorted) ==
    IF entries = <<>> THEN sorted ELSE InsertAll(Tail(entries), Insert(Head(entries), sorted))
Unsorted(entries) == entries
Sorted(entries) == InsertAll(entries, <<>>)

\* ----------------------------------------------- find_statement_transactions
\* the currency of a curdef node (contents[0] of an empty tag raises)
CurrencyOf(node) ==
    CASE node.kind = "empty" -> Raise("IndexError")
      [] node.kind = "text" -> Ok(Strip(node.text))
      [] OTHER -> Ok(<<>>)
\* the account id: next(acctid_node.children) of a tag with no children raises
\* StopIteration, which a generator turns into RuntimeError
AcctidOf(node) ==
    CASE node.kind = "absent" -> Ok(<<>>)
      [] node.kind = "empty" -> Raise("RuntimeError")
      [] node.kind = "text" -> Ok(Strip(node.text))
      [] OTHER -> Ok(<<>>)
\* the (date, balance amount) of the ledgerbal node, or None
BalanceOf(node) ==
    IF node.kind = "absent" THEN Ok(None)
    ELSE LET dtasof == DateOf(FindChild(node.dtasof, "parse_ofx_time"))
             balamt == FindChild(node.balamt, "D")
         IN  CASE dtasof.exc # "" -> Raise(dtasof.exc)
               [] balamt.exc # "" -> Raise(balamt.exc)
               [] OTHER -> Ok(Some([date |-> dtasof.val[1], number |-> balamt.val]))

\* ------------------------------------------------------------------ extract
\* the date of the Balance directive of one yielded statement
BalanceDateUnshifted(bt, balance, stmt_entries) ==
    IF bt = "LAST" /\ stmt_entries # <<>>
    THEN stmt_entries[Len(stmt_entries)].date
    ELSE balance.date
BalanceDateFirst(bt, balance, stmt_entries) ==
    (IF bt = "LAST" /\ stmt_entries # <<>> THEN stmt_entries[1].date ELSE balance.date) + 1
BalanceDate(bt, balance, stmt_entries) ==
    (IF bt = "LAST" /\ stmt_entries # <<>>
     THEN stmt_entries[Len(stmt_entries)].date
     ELSE balance.date) + 1

\* line 133: a Balance directive is made for a statement that has a balance,
\* unless the importer's BalanceType is NONE
WantsBalanceAlways(bt, balance) == balance # None
WantsBalance(bt, balance) == balance # None /\ bt # "NONE"

VARIABLES
    balance_type,   \* the importer's BalanceType
    acctid_regexp,  \* the importer's account-id pattern
    stmtrs,         \* the stmtrs node the generator is in, as far as it was read
    seen,           \* what the stmtrs nodes the generator has left held (history)
    pc,             \* where the call is
    ti,             \* find_statement_transactions: the transaction list yielded last
    currency, acctid, balance,   \* find_statement_transactions: its locals
    new_entries, counter,        \* extract: its locals
    stmt_entries, k,             \* extract: the statement's entries, the stmttrn reached
    result,                      \* what the caller of extract gets
    call                         \* the call that is made, and what it is made on

vars ==
    <<balance_type, acctid_regexp, stmtrs, seen, pc, ti, currency, acctid, balance,
      new_entries, counter, stmt_entries, k, result, call>>

Running == [status |-> "running", entries |-> <<>>, exc |-> "", origin |-> ""]

\* line 117: the counter of a call, whatever an earlier call left
SharedCounter(earlier) == earlier
NewCounter(earlier) == 0

\* one call of extract, or two calls on the same document: n is the call
\* that is made, of the number of calls; doc is the document as the first
\* call read it and first the outcome of the first call, kept for a second
\* call
Extracts(of) == [fn |-> "extract", n |-> 1, of |-> of, doc |-> <<>>, first |-> Running]
OneCall == Extracts(1)
Recording == call.of = 2 /\ call.n = 1
Replaying == call.n = 2
\* the second call is in the stmtrs node the first call read as Known
Known == call.doc[Len(seen) + 1]
Record(node) == IF Recording THEN [call EXCEPT !.doc = Append(@, node)] ELSE call

Init ==
    /\ call = OneCall
    /\ balance_type \in BalanceTypes
    /\ acctid_regexp \in Patterns
    /\ stmtrs = NoStmtrs
    /\ seen = <<>>
    /\ pc = "stmtrs"
    /\ ti = 0
    /\ currency = <<>>
    /\ acctid = <<>>
    /\ balance = None
    /\ new_entries = <<>>
    /\ counter = NewCounter(0)
    /\ stmt_entries = <<>>
    /\ k = 0
    /\ result = Running

\* history: whether the account id of a stmtrs node matches the pattern, and
\* what a stmtrs node held
Matches(node) ==
    LET id == AcctidOf(node.acctid) IN id.exc = "" /\ ReMatch(acctid_regexp, id.val)
\* a stmttrn node of the transaction lists has no dtposted text
Dateless(tranlists) ==
    \E t \in 1..Len(tranlists) :
        \E n \in 1..Len(tranlists[t]) : tranlists[t][n].dtposted.kind # "text"
\* find_acctids: what "<ACCTID>([^<]*)" matches in the text of the file for
\* the ACCTID tag of a stmtrs node: the characters up to the next tag, as
\* they are
FindAcctids(node) ==
    CASE node.acctid.kind = "absent" -> {}
      [] node.acctid.kind = "text" -> {node.acctid.text}
      [] OTHER -> {<<>>}
Summary(node) ==
    [matched |-> Matches(node), ledgerbal |-> node.ledgerbal.kind # "absent",
     identified |-> \E id \in FindAcctids(node) : ReMatch(acctid_regexp, id),
     dateless |-> Dateless(node.tranlists),
     curdefs |-> Len(node.curdefs), tranlists |-> Len(node.tranlists),
     stmttrns |-> SumLen(node.tranlists),
     nodes |-> Len(node.curdefs) + Len(node.tranlists) + SumLen(node.tranlists)]
RECURSIVE Total(_, _)
Total(summaries, field) ==
    IF summaries = <<>> THEN 0 ELSE Head(summaries)[field] + Total(Tail(summaries), field)
\* the curdef, transaction-list and stmttrn nodes the document may still hold
NodesLeft == MaxNodes - Total(seen, "nodes") - Summary(stmtrs).nodes
\* the generator is at the first curdef node of the stmtrs node: the
\* transaction lists are read for the first time; at a later curdef node the
\* same lists are walked again
FirstPass == Len(stmtrs.curdefs) = 1

\* an exception leaves extract: nothing is returned
Raises(exc, origin) ==
    /\ pc' = "done"
    /\ result' = [status |-> "raised", entries |-> <<>>, exc |-> exc, origin |-> origin]

\* line 247: the generator reaches the next stmtrs node of the document
NextStmtrs ==
    /\ pc = "stmtrs"
    /\ Len(seen) < (IF Replaying THEN Len(call.doc) ELSE MaxSections)
    /\ stmtrs' = NoStmtrs
    /\ pc' = "curdef"
    /\ UNCHANGED <<balance_type, acctid_regexp, seen, ti, currency, acctid, balance,
                   new_entries, counter, stmt_entries, k, result, call>>

\* lines 247, 118, 153: no stmtrs node is left, the generator ends, and extract
\* returns the sorted entries
ReturnSorted ==
    /\ pc = "stmtrs"
    /\ Replaying => Len(seen) = Len(call.doc)
    /\ pc' = "done"
    /\ result' = [status |-> "returned", entries |-> Sorted(new_entries), exc |-> "",
                  origin |-> ""]
    /\ UNCHANGED <<balance_type, acctid_regexp, stmtrs, seen, ti, currency, acctid, balance,
                   new_entries, counter, stmt_entries, k, call>>

\* lines 252-282: the next curdef node of the stmtrs node, its currency, and
\* the account id and the ledger balance, looked up at every curdef node (the
\* document shows its acctid and ledgerbal nodes at the first)
NextCurdefs ==
    IF ~Replaying THEN CurdefNodes
    ELSE IF Len(stmtrs.curdefs) < Len(Known.curdefs)
    THEN {Known.curdefs[Len(stmtrs.curdefs) + 1]}
    ELSE {}
NextCurdef ==
    /\ pc = "curdef"
    /\ NodesLeft > 0
    /\ \E node \in NextCurdefs,
          a \in IF stmtrs.curdefs # <<>> THEN {stmtrs.acctid}
                ELSE IF Replaying THEN {Known.acctid} ELSE AcctidNodes,
          b \in IF stmtrs.curdefs # <<>> THEN {stmtrs.ledgerbal}
                ELSE IF Replaying THEN {Known.ledgerbal} ELSE LedgerbalNodes :
        LET cur == CurrencyOf(node)
            id == AcctidOf(a)
            bal == BalanceOf(b)
            failed == CASE cur.exc # "" -> cur.exc
                        [] id.exc # "" -> id.exc
                        [] OTHER -> bal.exc
        IN  /\ stmtrs' = [stmtrs EXCEPT !.curdefs = Append(@, node), !.acctid = a,
                                        !.ledgerbal = b]
            /\ IF failed # ""
               THEN /\ Raises(failed, "find_statement_transactions")
                    /\ UNCHANGED <<currency, acctid, balance, ti>>
               ELSE /\ currency' = cur.val
                    /\ acctid' = id.val
                    /\ balance' = bal.val
                    /\ ti' = 0
                    /\ pc' = "tranlist"
                    /\ UNCHANGED result
    /\ UNCHANGED <<balance_type, acctid_regexp, seen, new_entries, counter, stmt_entries, k,
                   call>>

\* line 252: no curdef node is left in the stmtrs node
EndCurdefs ==
    /\ pc = "curdef"
    /\ stmtrs.curdefs # <<>>
    /\ Replaying => Len(stmtrs.curdefs) = Len(Known.curdefs)
    /\ pc' = "stmtrs"
    /\ seen' = Append(seen, Summary(stmtrs))
    /\ stmtrs' = NoStmtrs
    /\ call' = Record(stmtrs)
    /\ UNCHANGED <<balance_type, acctid_regexp, ti, currency, acctid, balance,
                   new_entries, counter, stmt_entries, k, result>>

\* line 252: the stmtrs node has no curdef node at all, and the generator
\* leaves it without reading its account id, its ledger balance or its
\* transaction lists. What it leaves unread is an account id, a ledger
\* balance and one transaction list of one stmttrn node.
UnreadStmtrs ==
    {[acctid |-> a, ledgerbal |-> Ledgerbal(Text(DateText(1)), Text(BalText)),
      tranlists |-> <<<<trn>>>>, curdefs |-> <<>>] :
        a \in {Text(<<"1", "2">>), Text(<<"2", "1">>)}, trn \in {GoodTrn(1), NoDateTrn}}
NoCurdef ==
    /\ pc = "curdef"
    /\ stmtrs.curdefs = <<>>
    /\ \E unread \in IF Replaying THEN {Known} ELSE UnreadStmtrs :
        /\ unread.curdefs = <<>>
        /\ Summary(unread).nodes <= NodesLeft
        /\ seen' = Append(seen, Summary(unread))
        /\ call' = Record(unread)
    /\ pc' = "stmtrs"
    /\ UNCHANGED <<balance_type, acctid_regexp, stmtrs, ti, currency, acctid, balance,
                   new_entries, counter, stmt_entries, k, result>>

\* line 285: the generator reaches a transaction list: one read before, or at
\* the first curdef node the next one of the document
MoreTranlists ==
    \/ ti < Len(stmtrs.tranlists)
    \/ FirstPass /\ IF Replaying THEN ti < Len(Known.tranlists) ELSE NodesLeft > 0
ReachTranlist ==
    IF ti < Len(stmtrs.tranlists) THEN stmtrs ELSE [stmtrs EXCEPT !.tranlists = Append(@, <<>>)]

\* lines 285-287, 119-120: the next transaction list is yielded and extract
\* skips it, its account id not matching
YieldSkipped ==
    /\ pc = "tranlist"
    /\ MoreTranlists
    /\ ~ReMatch(acctid_regexp, acctid)
    /\ stmtrs' = ReachTranlist
    /\ ti' = ti + 1
    /\ UNCHANGED <<balance_type, acctid_regexp, seen, pc, currency, acctid, balance,
                   new_entries, counter, stmt_entries, k, result, call>>

\* lines 285-287, 119-123: the next transaction list is yielded and extract
\* starts on its transactions
YieldMatched ==
    /\ pc = "tranlist"
    /\ MoreTranlists
    /\ ReMatch(acctid_regexp, acctid)
    /\ stmtrs' = ReachTranlist
    /\ ti' = ti + 1
    /\ stmt_entries' = <<>>
    /\ k' = 0
    /\ pc' = "stmttrn"
    /\ UNCHANGED <<balance_type, acctid_regexp, seen, currency, acctid, balance,
                   new_entries, counter, result, call>>

\* line 285: no transaction list is left for this curdef node
EndTranlists ==
    /\ pc = "tranlist"
    /\ ti = Len(stmtrs.tranlists)
    /\ Replaying /\ FirstPass => ti = Len(Known.tranlists)
    /\ pc' = "curdef"
    /\ UNCHANGED <<balance_type, acctid_regexp, stmtrs, seen, ti, currency, acctid, balance,
                   new_entries, counter, stmt_entries, k, result, call>>

\* the transaction nodes of the statement yielded last, as far as they were read
Transactions == stmtrs.tranlists[ti]
\* line 124: the stmttrn node extract reaches: one read before, or at the
\* first curdef node the next one of the document
NextStmttrns ==
    IF k < Len(Transactions) THEN {Transactions[k + 1]}
    ELSE IF ~FirstPass THEN {}
    ELSE IF Replaying
    THEN IF k < Len(Known.tranlists[ti]) THEN {Known.tranlists[ti][k + 1]} ELSE {}
    ELSE IF NodesLeft > 0 THEN TrnNodes
    ELSE {}
\* history: the stmtrs node, curdef node and transaction list an entry is from
Origin == [stmtrs |-> Len(seen) + 1, curdef |-> Len(stmtrs.curdefs), tranlist |-> ti]

\* lines 124-128: one stmttrn node is built and numbered
BuildEntry ==
    /\ pc = "stmttrn"
    /\ \E stmttrn \in NextStmttrns :
        LET built == BuildTransaction(stmttrn, FLAG_OKAY, ImporterAccount, currency)
        IN  /\ stmtrs' = IF k < Len(Transactions) THEN stmtrs
                         ELSE [stmtrs EXCEPT !.tranlists[ti] = Append(@, stmttrn)]
            /\ IF built.exc # ""
               THEN /\ Raises(built.exc, "build_transaction")
                    /\ UNCHANGED <<stmt_entries, counter, k>>
               ELSE /\ stmt_entries' =
                          Append(stmt_entries,
                                 [kind |-> "Transaction",
                                  meta |-> [filename |-> Filename, lineno |-> counter],
                                  date |-> built.val.date, flag |-> built.val.flag,
                                  payee |-> built.val.payee,
                                  narration |-> built.val.narration,
                                  account |-> built.val.account, units |-> built.val.units,
                                  origin |-> Origin])
                    /\ counter' = counter + 1
                    /\ k' = k + 1
                    /\ UNCHANGED <<pc, result>>
    /\ UNCHANGED <<balance_type, acctid_regexp, seen, ti, currency, acctid, balance,
                   new_entries, call>>

\* lines 129-151: the transaction list has no further stmttrn node; the
\* statement's entries are sorted and kept, and its Balance directive follows
\* them; asof and trndates (history) are the statement's as-of date and the
\* dates of its transactions
FinishStatement ==
    /\ pc = "stmttrn"
    /\ k = Len(Transactions)
    /\ Replaying /\ FirstPass => k = Len(Known.tranlists[ti])
    /\ LET sorted == Sorted(stmt_entries)
       IN  /\ stmt_entries' = sorted
           /\ IF WantsBalance(balance_type, balance)
              THEN /\ new_entries' =
                        new_entries \o sorted \o
                        <<[kind |-> "Balance",
                           meta |-> [filename |-> Filename, lineno |-> counter],
                           date |-> BalanceDate(balance_type, balance[1], sorted),
                           account |-> ImporterAccount,
                           units |-> [number |-> balance[1].number, currency |-> currency],
                           origin |-> Origin,
                           asof |-> balance[1].date,
                           trndates |-> {stmt_entries[i].date : i \in 1..Len(stmt_entries)}]>>
                   /\ counter' = counter + 1
              ELSE /\ new_entries' = new_entries \o sorted
                   /\ UNCHANGED counter
    /\ pc' = "tranlist"
    /\ UNCHANGED <<balance_type, acctid_regexp, stmtrs, seen, ti, currency, acctid, balance,
                   k, result, call>>

Next ==
    \/ NextStmtrs
    \/ ReturnSorted
    \/ NextCurdef
    \/ EndCurdefs
    \/ NoCurdef
    \/ YieldSkipped
    \/ YieldMatched
    \/ EndTranlists
    \/ BuildEntry
    \/ FinishStatement

Spec == Init /\ [][Next]_vars

\* ----------------------------------------------------- Importer.identify
\* mimetypes.guess_type(filepath, strict=False)[0]: the type the file's
\* extension stands for, or None
Filepaths == {Filename, "statement.qbo", "statement.qfx", "statement.csv"}
GuessType(filepath) ==
    CASE filepath = "statement.ofx" -> Some("application/x-ofx")
      [] filepath = "statement.qbo" -> Some("application/vnd.intu.qbo")
      [] filepath = "statement.qfx" -> Some("application/vnd.intu.qfx")
      [] filepath = "statement.csv" -> Some("text/csv")
      [] OTHER -> None
OfxTypes ==
    {Some("application/x-ofx"), Some("application/vnd.intu.qbo"),
     Some("application/vnd.intu.qfx")}
\* lines 52-65: identify on a file whose stmtrs nodes are those the call of
\* extract has left
Identify(filepath) ==
    IF GuessType(filepath) \notin OfxTypes THEN FALSE
    ELSE \E s \in 1..Len(seen) : seen[s].identified

\* ------------------------------------------------- two calls of extract
\* extract is called again on the document of the first call, with the same
\* filter, account, flag and policy: lines 116-117 give the call a new list
\* and a new counter, and find_statement_transactions a new generator.
CallAgain ==
    /\ pc = "done"
    /\ Recording
    /\ call' = [call EXCEPT !.n = 2, !.first = result,
                            !.doc = IF result.status = "raised" THEN Append(@, stmtrs) ELSE @]
    /\ new_entries' = <<>>
    /\ counter' = NewCounter(counter)
    /\ stmtrs' = NoStmtrs
    /\ seen' = <<>>
    /\ pc' = "stmtrs"
    /\ ti' = 0
    /\ currency' = <<>>
    /\ acctid' = <<>>
    /\ balance' = None
    /\ stmt_entries' = <<>>
    /\ k' = 0
    /\ result' = Running
    /\ UNCHANGED <<balance_type, acctid_regexp>>

InitTwice ==
    /\ call = Extracts(2)
    /\ balance_type \in BalanceTypes
    /\ acctid_regexp \in Patterns
    /\ stmtrs = NoStmtrs
    /\ seen = <<>>
    /\ pc = "stmtrs"
    /\ ti = 0
    /\ currency = <<>>
    /\ acctid = <<>>
    /\ balance = None
    /\ new_entries = <<>>
    /\ counter = NewCounter(0)
    /\ stmt_entries = <<>>
    /\ k = 0
    /\ result = Running

NextTwice ==
    \/ NextStmtrs
    \/ ReturnSorted
    \/ NextCurdef
    \/ EndCurdefs
    \/ NoCurdef
    \/ YieldSkipped
    \/ YieldMatched
    \/ EndTranlists
    \/ BuildEntry
    \/ FinishStatement
    \/ CallAgain

SpecTwice == InitTwice /\ [][NextTwice]_vars

\* ------------------------------------------- calls of the helper functions
\* find_child and build_transaction called on their own, on the child nodes
\* and the stmttrn nodes below; extract is not running.
locals ==
    <<balance_type, acctid_regexp, stmtrs, seen, pc, ti, currency, acctid, balance,
      new_entries, counter, stmt_entries, k, result>>
NotRunning ==
    /\ balance_type = "NONE"
    /\ acctid_regexp \in Patterns
    /\ stmtrs = NoStmtrs
    /\ seen = <<>>
    /\ pc = "done"
    /\ ti = 0
    /\ currency = <<>>
    /\ acctid = <<>>
    /\ balance = None
    /\ new_entries = <<>>
    /\ counter = 0
    /\ stmt_entries = <<>>
    /\ k = 0
    /\ result = Running

Conversions == {"None", "parse_ofx_time", "D", "unescape"}
ChildNodes ==
    {Absent, Empty, TagFirst, Text(<<" ", "\n">>), Text(<<" ", "Shop", "\n">>),
     Text(DateText(1)), Text(BalText)}
NameNodes ==
    {Absent, TagFirst, Text(<<" ", "\n">>), Text(<<"Shop">>), Text(<<" ", "Shop", "\n">>),
     Text(<<"A", "&amp;", "B">>)}
MemoNodes ==
    {Absent, Text(<<" ">>), Text(<<"Shop">>), Text(<<"Rent", "\n">>), Text(<<"A", "&", "B">>)}
TrntypeNodes ==
    {Absent, Empty, Text(<<"DEBIT">>), Text(<<"CREDIT", "\n">>), Text(<<"CHECK">>),
     Text(<<"debit">>)}
NarratedTrns ==
    {[GoodTrn(1) EXCEPT !.name = n, !.memo = m, !.trntype = t] :
        n \in NameNodes, m \in MemoNodes, t \in TrntypeNodes}
USD == <<"U", "S", "D">>

FindChildCalls ==
    {[fn |-> "find_child", child |-> c, conversion |-> conv, out |-> None] :
        c \in ChildNodes, conv \in Conversions}
BuildTransactionCalls ==
    {[fn |-> "build_transaction", stmttrn |-> trn, out |-> None] : trn \in NarratedTrns}

InitCalls ==
    /\ NotRunning
    /\ call \in FindChildCalls \cup BuildTransactionCalls

\* lines 290-314: find_child returns or raises
CallFindChild ==
    /\ call.fn = "find_child"
    /\ call.out = None
    /\ call' = [call EXCEPT !.out = Some(FindChild(call.child, call.conversion))]
    /\ UNCHANGED locals

\* lines 317-372: build_transaction returns or raises
CallBuildTransaction ==
    /\ call.fn = "build_transaction"
    /\ call.out = None
    /\ call' = [call EXCEPT
                   !.out = Some(BuildTransaction(call.stmttrn, FLAG_OKAY, ImporterAccount, USD))]
    /\ UNCHANGED locals

NextCalls ==
    \/ CallFindChild
    \/ CallBuildTransaction

SpecCalls == InitCalls /\ [][NextCalls]_vars

\* ------------------------------------------------------------ the claims
Returned == result.status = "returned"
Raised == result.status = "raised"
Positions == 1..Len(result.entries)
Balances == {i \in Positions : result.entries[i].kind = "Balance"}
Postings == {i \in Positions : result.entries[i].kind = "Transaction"}
\* the returned entries that come from stmtrs node s
From(s, positions) == {i \in positions : result.entries[i].origin.stmtrs = s}
Max(dates) == CHOOSE d \in dates : \A e \in dates : e <= d
InsertsBalance(summary) == summary.matched /\ summary.ledgerbal /\ balance_type # "NONE"
RECURSIVE Expected(_)
\* the stmttrn nodes of the matching stmtrs nodes, and one more for each of
\* these nodes that holds a ledger balance the policy inserts
Expected(summaries) ==
    IF summaries = <<>> THEN 0
    ELSE (IF Head(summaries).matched THEN Head(summaries).stmttrns ELSE 0)
         + (IF InsertsBalance(Head(summaries)) THEN 1 ELSE 0)
         + Expected(Tail(summaries))

\* C1: extract returns N + B records, N the stmttrn nodes of the matching
\* stmtrs nodes, each counted once, and B the matching stmtrs nodes that
\* contribute a balance assertion under the policy.
C1_RecordCount == Returned => Len(result.entries) = Expected(seen)

\* C2 as claimed: the returned entries are sorted by date, and entries of one
\* date are in increasing ordinal order.
C2_SortedByDateThenOrdinal ==
    Returned =>
        \A i, j \in Positions :
            i < j =>
                LET a == result.entries[i]
                    b == result.entries[j]
                IN  a.date < b.date \/ (a.date = b.date /\ a.meta.lineno < b.meta.lineno)

\* C2 as amended: the returned entries are sorted by date; of two entries of
\* one date a balance assertion comes before a transaction, whatever their
\* ordinals, and two entries of one date and one kind are in increasing
\* ordinal order.
C2_SortedByDateKindOrdinal ==
    Returned =>
        \A i, j \in Positions :
            i < j =>
                LET a == result.entries[i]
                    b == result.entries[j]
                IN  /\ a.date <= b.date
                    /\ a.date = b.date => ~(a.kind = "Transaction" /\ b.kind = "Balance")
                    /\ a.date = b.date /\ a.kind = b.kind => a.meta.lineno < b.meta.lineno

\* C2's case: a balance assertion returned before a transaction of its date
\* that was numbered earlier.
C2_Witness ==
    /\ Returned
    /\ \E i, j \in Positions :
        /\ i < j
        /\ result.entries[i].kind = "Balance"
        /\ result.entries[j].kind = "Transaction"
        /\ result.entries[i].date = result.entries[j].date
        /\ result.entries[i].meta.lineno > result.entries[j].meta.lineno

\* C3 as claimed: every returned balance assertion is dated one day after its
\* statement's as-of date.
C3_AsOfPlusOne ==
    Returned => \A i \in Balances : result.entries[i].date = result.entries[i].asof + 1

\* C3 as amended: a returned balance assertion is dated one day after its
\* statement's as-of date under DECLARED, and under LAST when no transaction
\* was extracted for its statement.
C3_AsOfPlusOneUnlessLast ==
    Returned =>
        \A i \in Balances :
            balance_type = "DECLARED" \/ result.entries[i].trndates = {}
                => result.entries[i].date = result.entries[i].asof + 1

\* C3's case: a DECLARED balance assertion of a statement whose transactions
\* are all of other dates than the as-of date.
C3_Witness ==
    /\ Returned
    /\ balance_type = "DECLARED"
    /\ \E i \in Balances :
        /\ result.entries[i].trndates # {}
        /\ result.entries[i].asof \notin result.entries[i].trndates

\* C4 as claimed: under LAST a balance assertion is dated the greatest date of
\* the transactions extracted for its statement, and one day after the as-of
\* date when there is none.
C4_LastIsMaxDate ==
    Returned /\ balance_type = "LAST" =>
        \A i \in Balances :
            LET e == result.entries[i]
            IN  e.date = IF e.trndates # {} THEN Max(e.trndates) ELSE e.asof + 1

\* C4 as amended: under LAST a balance assertion is dated one day after the
\* greatest date of the transactions extracted for its statement (the
\* transaction list it was yielded with), and one day after the as-of date
\* when there is none.
C4_LastIsDayAfterMaxDate ==
    Returned /\ balance_type = "LAST" =>
        \A i \in Balances :
            LET e == result.entries[i]
            IN  e.date = (IF e.trndates # {} THEN Max(e.trndates) ELSE e.asof) + 1

\* C4's case: a LAST balance assertion of a statement with transactions of
\* two dates, the later one read first.
C4_Witness ==
    /\ Returned
    /\ balance_type = "LAST"
    /\ \E i \in Balances, j, l \in Postings :
        /\ result.entries[j].origin = result.entries[i].origin
        /\ result.entries[l].origin = result.entries[i].origin
        /\ result.entries[j].meta.lineno < result.entries[l].meta.lineno
        /\ result.entries[j].date > result.entries[l].date

\* C5: a stmtrs node yields at most one balance assertion, and exactly one
\* when it matches, holds a ledger balance and the policy is not NONE,
\* however many curdef and transaction-list nodes it holds.
C5_OneBalancePerSection ==
    Returned =>
        \A s \in 1..Len(seen) :
            /\ Cardinality(From(s, Balances)) <= 1
            /\ InsertsBalance(seen[s]) => Cardinality(From(s, Balances)) = 1

\* A stmtrs node that was read and whose account id does not match.
Unmatched(node) ==
    /\ node.curdefs # <<>>
    /\ AcctidOf(node.acctid).exc = ""
    /\ ~ReMatch(acctid_regexp, AcctidOf(node.acctid).val)

\* C6: while the generator is in a stmtrs node whose account id does not
\* match, no entry is added, no ordinal is taken and nothing is raised.
C6_SkippedContributesNothing ==
    [][(pc \in {"curdef", "tranlist"} /\ Unmatched(stmtrs'))
          => (new_entries' = new_entries /\ counter' = counter /\ result'.status # "raised")]_vars

\* C7: extract does not return when a matching stmtrs node of the document
\* holds a stmttrn node without a posted date, and no returned entry is
\* without a date.
C7_MissingDateIsFatal ==
    /\ Returned => \A s \in 1..Len(seen) : ~(seen[s].matched /\ seen[s].dateless)
    /\ \A i \in Positions : result.entries[i].date \in {Day(d) : d \in 1..(MaxDate + 1)}

\* A stmttrn node without a posted date was read in a statement that
\* find_statement_transactions yielded with a matching account id.
DatelessRead == Dateless(stmtrs.tranlists)

\* Within the statements that are yielded, the missing date is fatal: once
\* build_transaction has read the node the call has raised and holds no
\* entry to return.
YieldedMissingDateRaises ==
    DatelessRead => Raised /\ result.entries = <<>> /\ pc = "done"

\* The stmttrn node without a date is read after other entries of the call
\* were built and numbered.
YieldedMissingDateRaised ==
    /\ DatelessRead
    /\ Raised
    /\ result.exc = "AttributeError"
    /\ result.origin = "build_transaction"
    /\ counter > 0

\* C8: no returned transaction has a posting without a number.
C8_MissingAmountIsFatal ==
    Returned => \A i \in Postings : result.entries[i].units.number # None

\* C9: extract raises for a stmttrn node only, never for the curdef, acctid or
\* ledgerbal node of a stmtrs node.
C9_SectionNodesNeverRaise == Raised => result.origin = "build_transaction"

\* C10: a matching stmtrs node without a curdef node gives one transaction
\* with the currency "" for each of its stmttrn nodes, and its balance
\* assertion when the policy asks for one.
C10_NoCurdefKept ==
    Returned =>
        \A s \in 1..Len(seen) :
            seen[s].curdefs = 0 /\ seen[s].matched =>
                /\ Cardinality(From(s, Postings)) = seen[s].stmttrns
                /\ \A i \in From(s, Postings) : result.entries[i].units.currency = <<>>
                /\ InsertsBalance(seen[s]) => From(s, Balances) # {}

\* a build_transaction call that returned, and the transaction it returned
Built == call.fn = "build_transaction" /\ call.out # None /\ call.out[1].exc = ""
BuiltEntry == call.out[1].val
\* the unescaped, trimmed text of a field of the stmttrn node, None without it
Field(node) == IF node.kind = "text" THEN Unescape(Some(Strip(node.text))).val ELSE None
\* the field's text when it is kept, as a list of no or one part
Part(keep, field) == IF keep THEN <<field[1]>> ELSE <<>>
NarrationParts ==
    LET name == Field(call.stmttrn.name)
        memo == Field(call.stmttrn.memo)
        trntype == Field(call.stmttrn.trntype)
        present(field) == field # None /\ field[1] # <<>>
    IN  Part(present(name), name)
        \o Part(present(memo) /\ memo # name, memo)
        \o Part(present(trntype) /\ trntype[1] \notin {<<"DEBIT">>, <<"CREDIT">>}, trntype)

\* C11: the narration of a built transaction is the name, the memo and the
\* transaction type joined by " / " in this order, without the fields that
\* are null or empty, without a memo equal to the name and without a
\* transaction type DEBIT or CREDIT; it is empty when none is left.
C11_NarrationJoinsKeptFields ==
    Built =>
        LET parts == NarrationParts
            sep == <<" / ">>
        IN  BuiltEntry.narration =
                CASE Len(parts) = 0 -> <<>>
                  [] Len(parts) = 1 -> parts[1]
                  [] Len(parts) = 2 -> parts[1] \o sep \o parts[2]
                  [] OTHER -> parts[1] \o sep \o parts[2] \o sep \o parts[3]

\* C11's case: a memo that equals the name once both are unescaped is
\* dropped and a transaction type CHECK is kept.
C11_Witness ==
    /\ Built
    /\ call.stmttrn.name = Text(<<"A", "&amp;", "B">>)
    /\ call.stmttrn.memo = Text(<<"A", "&", "B">>)
    /\ BuiltEntry.narration = <<"A", "&", "B", " / ", "CHECK">>

\* the ordinal of a returned entry, and the number of returned transactions
\* and balance assertions numbered before it
Ordinal(i) == result.entries[i].meta.lineno
Before(i, positions) == Cardinality({j \in positions : Ordinal(j) < Ordinal(i)})

\* C12 as claimed: under NONE no balance assertion is returned, and under
\* every policy the transactions returned are those returned under NONE,
\* where a transaction's ordinal is the number of transactions numbered
\* before it.
C12_NoneSameTransactions ==
    Returned =>
        /\ balance_type = "NONE" => Balances = {}
        /\ \A i \in Postings : Ordinal(i) = Before(i, Postings)

\* C12 as amended: under NONE no balance assertion is returned; the ordinal
\* of a returned transaction is the number of transactions numbered before
\* it under NONE, and under the other policies that number plus the number
\* of balance assertions numbered before it.
C12_NoneSameTransactionsButOrdinals ==
    Returned =>
        /\ balance_type = "NONE" => Balances = {}
        /\ \A i \in Postings : Ordinal(i) = Before(i, Postings) + Before(i, Balances)

\* C12's case: under NONE two transactions are returned from matching
\* stmtrs nodes that hold a ledger balance.
C12_Witness ==
    /\ Returned
    /\ balance_type = "NONE"
    /\ \E i, j \in Postings :
        /\ Ordinal(i) < Ordinal(j)
        /\ seen[result.entries[i].origin.stmtrs].ledgerbal
        /\ seen[result.entries[j].origin.stmtrs].ledgerbal

\* the second of two calls on the same document has ended
SecondDone == call.n = 2 /\ pc = "done"

\* C13: the second of two extract calls on the same document, with the same
\* filter, account, flag and policy, ends as the first did: it returns the
\* same entries with the same ordinals, or raises the same exception.
C13_SecondCallSame == SecondDone => result = call.first

\* C13's case: both calls return a transaction and a balance assertion, the
\* second call numbering them from 0 again.
C13_Witness ==
    /\ SecondDone
    /\ Returned
    /\ Balances # {}
    /\ \E i \in Postings : Ordinal(i) = 0

\* C14: extract returns no entry for a file of a recognized type that
\* identify turns down, that is, on which no ACCTID tag matches the pattern.
C14_IdentifyAgreesWithExtract ==
    Returned =>
        \A filepath \in Filepaths :
            GuessType(filepath) \in OfxTypes /\ ~Identify(filepath) => result.entries = <<>>

\* a find_child call that has ended
Found == call.fn = "find_child" /\ call.out # None

\* C15: find_child does not raise; it returns a value for a child whose
\* first content is text, and None for a child that is absent, has no
\* content or has a nested tag first, whatever the conversion.
C15_FindChildNeverRaises ==
    Found =>
        /\ call.out[1].exc = ""
        /\ call.child.kind # "text" => call.out[1].val = None

\* the entries returned for stmtrs node s that are numbered before entry i
Earlier(s, i, positions) == {j \in From(s, positions) : Ordinal(j) < Ordinal(i)}

\* C16: the ordinals of the returned entries are the numbers 0 to
\* len(result) - 1, each once, and the balance assertion of a stmtrs node
\* has a greater ordinal than every transaction of that node.
C16_OrdinalsCountRecords ==
    Returned =>
        /\ {Ordinal(i) : i \in Positions} = 0..(Len(result.entries) - 1)
        /\ \A i, j \in Positions : Ordinal(i) = Ordinal(j) => i = j
        /\ \A s \in 1..Len(seen) :
            \A i \in From(s, Balances) :
                Earlier(s, i, Postings) = From(s, Postings)

====
